---- MODULE Spec2Model ----
(* Model of src/bot.js: a Telegraf bot whose command handlers call Solscan,   *)
(* CoinGecko and a Solana RPC node and reply with formatted text.             *)
(* One handler runs per chat; a step of the model is one run of a handler     *)
(* between two awaits of the single-threaded event loop.                      *)
EXTENDS Integers, Sequences, FiniteSets, TLC

\* ---------------------------------------------------------------- bounds
MaxArgs == 2
TickMs == 150

\* ------------------------------------------------------- program constants
minTime == 300
maxConcurrent == 5
LAMPORTS_PER_SOL == 1000000000

\* ------------------------------------------------------- input domains
Chats == {"chatA", "chatB"}
WellFormed == {"So1anaKey"}
Words == WellFormed \cup {"not-a-key"}
Coins == {"solana", "bitcoin", "ethereum"}
Commands == {"/check", "/balance", "/prices", "/gas", "/help"}
ArgLists == UNION {[1..n -> Words] : n \in 0..MaxArgs}
Texts ==
    {<<c>> \o a : c \in {"/check", "/balance"}, a \in ArgLists}
        \cup {<<c>> : c \in {"/prices", "/gas", "/help"}}

Undefined == <<>>
Some(v) == <<v>>

Coin(id, p) == [id |-> id, current_price |-> p]
SolscanResponses ==
    {[ok |-> FALSE, data |-> Undefined],
     [ok |-> TRUE, data |-> Undefined],
     [ok |-> TRUE, data |-> Some([name |-> "Bonk", symbol |-> "BONK"])]}
TokenAccountsResponses ==
    {[ok |-> FALSE, value |-> <<>>],
     [ok |-> TRUE, value |-> <<>>],
     [ok |-> TRUE, value |-> <<[parsed |-> TRUE, uiAmount |-> Some(5)]>>],
     [ok |-> TRUE, value |-> <<[parsed |-> FALSE, uiAmount |-> Undefined]>>]}
CoinGeckoResponses ==
    {[ok |-> FALSE, data |-> <<>>],
     [ok |-> TRUE, data |-> <<Coin("solana", 20)>>],
     [ok |-> TRUE,
      data |-> <<Coin("bitcoin", 90), Coin("ethereum", 30), Coin("solana", 21)>>]}
BlockhashResponses ==
    {[ok |-> FALSE, lamportsPerSignature |-> 0],
     [ok |-> TRUE, lamportsPerSignature |-> 5000]}
BalanceResponses ==
    {[ok |-> FALSE, lamports |-> 0],
     [ok |-> TRUE, lamports |-> 2 * LAMPORTS_PER_SOL]}

VARIABLES h, alive, sinceLast
vars == <<h, alive, sinceLast>>

\* ------------------------------------------------------- handler-local state
Fresh ==
    [cmd |-> "none", args |-> <<>>, pc |-> "idle",
     tokenInfo |-> Undefined, balance |-> Undefined, prices |-> <<>>,
     analysis |-> Undefined, surfaced |-> <<>>,
     subs |-> <<>>, calls |-> <<>>, rx |-> <<>>, replies |-> <<>>,
     logged |-> <<>>, uncaught |-> 0]

Init ==
    /\ h = [i \in Chats |-> Fresh]
    /\ alive = TRUE
    /\ sinceLast = minTime

\* ------------------------------------------------------- small helpers
Min(a, b) == IF a < b THEN a ELSE b

\* ctx.message.text.split(' ').slice(1): the words after the command.
argsOf(text) == Tail(text)

\* The handler keeps the arguments it destructures: [tokenAddress, address]
\* for /check, args[0] for /balance. Further words are never read.
Arity(cmd) == CASE cmd = "/check" -> 2 [] cmd = "/balance" -> 1 [] OTHER -> 0
kept(cmd, a) == SubSeq(a, 1, Min(Len(a), Arity(cmd)))

\* new PublicKey(a) throws unless a decodes to a well-formed key.
PublicKeyThrows(a) == a \notin WellFormed

\* logger.error(line)
logError(s, line) == [s EXCEPT !.logged = Append(@, line)]

\* ctx.reply(...): the send is started and its promise is either returned to
\* Telegraf ("returned") or dropped without await or catch ("floating").
\* `at` records how many outbound requests the handler had started by then.
reply(s, kind, text, nums, how) ==
    [s EXCEPT !.replies =
        Append(@, [kind |-> kind, text |-> text, nums |-> nums,
                   how |-> how, at |-> Len(s.calls), status |-> "pending"])]

\* The awaited promise settles with upstream response r.
received(s, r) == [s EXCEPT !.rx = Append(@, r)]

Done(s) == [s EXCEPT !.pc = "done"]

\* A client function is entered / returns / throws.
subStart(s, fn) == [s EXCEPT !.subs = Append(@, [fn |-> fn, status |-> "pending"])]
subEnd(s, st) == [s EXCEPT !.subs[Len(s.subs)].status = st]

\* An outbound request leaves the process and the handler suspends on it.
issue(s, service, at) == [s EXCEPT !.calls = Append(@, service), !.pc = at]

\* ------------------------------------------------------- handler catch blocks
\* catch (error) { ctx.reply(`Error: ${error.message}`) }
handlerCatch(s, message) == Done(reply(s, "error", <<message>>, <<>>, "floating"))

\* analyzeToken's catch: log, then throw the generic error to the caller,
\* which is the /check handler's catch.
analyzeCatch(s, cause) ==
    LET s1 == logError(s, "Error during analysis: " \o cause)
        s2 == [s1 EXCEPT !.surfaced = Append(@, "Failed to analyze token.")]
    IN  handlerCatch(s2, "Failed to analyze token.")

\* A client function's catch: log and rethrow its fixed message to whoever
\* awaited it: analyzeToken inside /check, the handler itself otherwise.
clientCatch(s, logLine, message) ==
    LET s1 == subEnd(logError(s, logLine), "failed")
    IN  IF s.cmd = "/check"
        THEN analyzeCatch(s1, message)
        ELSE handlerCatch(s1, message)

\* ------------------------------------------------------- client functions
getTokenInfoFromSolscan(s) ==
    issue(subStart(s, "getTokenInfoFromSolscan"), "solscan", "awaitSolscan")

getTokenBalance(s, address, tokenAddress) ==
    LET s1 == subStart(s, "getTokenBalance")
    IN  IF PublicKeyThrows(address) \/ PublicKeyThrows(tokenAddress)
        THEN clientCatch(s1, "Error fetching token balance: Invalid public key input",
                         "Failed to fetch token balance.")
        ELSE issue(s1, "rpc.getTokenAccountsByOwner", "awaitTokenAccounts")

getCryptoPrices(s) ==
    issue(subStart(s, "getCryptoPrices"), "coingecko", "awaitCoinGecko")

getSolanaGasFee(s) ==
    issue(subStart(s, "getSolanaGasFee"), "rpc.getRecentBlockhash", "awaitBlockhash")

\* Faulty variant: value[0].account without the optional chaining, which raises a
\* TypeError on an empty account list.
uiAmountStrict(value) ==
    IF value = <<>> \/ ~value[1].parsed THEN [threw |-> TRUE, val |-> 0]
    ELSE IF value[1].uiAmount = Undefined THEN [threw |-> FALSE, val |-> 0]
    ELSE [threw |-> FALSE, val |-> value[1].uiAmount[1]]

\* tokenAccount.value[0]?.account.data.parsed.info.tokenAmount.uiAmount || 0
\* threw: data.parsed is undefined, so reading .info raises a TypeError.
uiAmountOrZero(value) ==
    IF value = <<>> THEN [threw |-> FALSE, val |-> 0]
    ELSE IF ~value[1].parsed THEN [threw |-> TRUE, val |-> 0]
    ELSE IF value[1].uiAmount = Undefined THEN [threw |-> FALSE, val |-> 0]
    ELSE [threw |-> FALSE, val |-> value[1].uiAmount[1]]

\* response.data.forEach(coin => prices[coin.id] = coin.current_price)
RECURSIVE pricesOf(_)
pricesOf(data) ==
    IF data = <<>> THEN <<>>
    ELSE LET front == pricesOf(SubSeq(data, 1, Len(data) - 1))
             coin == data[Len(data)]
         IN  [id \in DOMAIN front \cup {coin.id} |->
                 IF id = coin.id THEN coin.current_price ELSE front[id]]

\* prices.solana and the like: undefined when the key is absent.
priceOf(prices, id) == IF id \in DOMAIN prices THEN Some(prices[id]) ELSE Undefined

\* fee / 1000000000, kept as the exact fraction <<numerator, denominator>>.
toSol(lamports) == <<lamports, LAMPORTS_PER_SOL>>

\* ------------------------------------------------------- /check
\* The part of the /check handler after analyzeToken has returned.
checkReplyAnalysis(s, gasFee) ==
    LET result == [tokenInfo |-> s.tokenInfo, balance |-> s.balance[1],
                   prices |-> s.prices, gasFee |-> gasFee]
        s1 == [s EXCEPT !.analysis = Some(result)]
    IN  IF s.tokenInfo = Undefined
        THEN handlerCatch(s1, "Cannot read properties of undefined (reading 'name')")
        ELSE Done(reply(s1, "analysis",
                        <<s.tokenInfo[1].name, s.tokenInfo[1].symbol>>,
                        <<priceOf(s.prices, "solana"), s.balance, gasFee>>,
                        "floating"))

analyzeToken(s) == getTokenInfoFromSolscan(s)

\* Faulty variant: the progress reply is sent after analyzeToken has been called.
checkHandlerLate(s) ==
    IF Len(s.args) < 2
    THEN Done(reply(s, "usage", <<"/check">>, <<>>, "returned"))
    ELSE reply(analyzeToken(s), "analyzing", <<>>, <<>>, "floating")

checkHandler(s) ==
    IF Len(s.args) < 2
    THEN Done(reply(s, "usage", <<"/check">>, <<>>, "returned"))
    ELSE analyzeToken(reply(s, "analyzing", <<>>, <<>>, "floating"))

\* Faulty variant: a failed token-info fetch is logged and the analysis carries on.
afterSolscanContinues(s, r) ==
    LET s1 == IF r.ok THEN subEnd([s EXCEPT !.tokenInfo = r.data], "ok")
              ELSE subEnd(logError(s, "Error fetching token info from Solscan"),
                          "failed")
    IN  getTokenBalance(s1, s.args[2], s.args[1])

afterSolscan(s, r) ==
    IF ~r.ok
    THEN clientCatch(s, "Error fetching token info from Solscan",
                     "Failed to fetch token info.")
    ELSE LET a == s.args
         IN  getTokenBalance(subEnd([s EXCEPT !.tokenInfo = r.data], "ok"), a[2], a[1])

afterTokenAccounts(s, r) ==
    IF ~r.ok \/ uiAmountOrZero(r.value).threw
    THEN clientCatch(s, "Error fetching token balance",
                     "Failed to fetch token balance.")
    ELSE getCryptoPrices(
            subEnd([s EXCEPT !.balance = Some(uiAmountOrZero(r.value).val)], "ok"))

\* ------------------------------------------------------- /prices
\* Faulty variant: the reply is formatted from a module-level price cache that the
\* latest fetch of any handler has filled.
pricesReplyShared(s) ==
    LET others == {j \in Chats : h[j].prices # <<>> /\ h[j].prices # s.prices}
        shown == IF others = {} THEN s.prices ELSE h[CHOOSE j \in others : TRUE].prices
    IN  Done(reply(s, "prices", <<>>,
                   <<priceOf(shown, "solana"), priceOf(shown, "bitcoin"),
                     priceOf(shown, "ethereum")>>, "floating"))

pricesReply(s) ==
    Done(reply(s, "prices", <<>>,
               <<priceOf(s.prices, "solana"), priceOf(s.prices, "bitcoin"),
                 priceOf(s.prices, "ethereum")>>, "floating"))

\* Faulty variant: a failed price fetch is swallowed and an empty price map is used.
afterCoinGeckoSwallow(s, r) ==
    LET s1 == IF r.ok THEN subEnd([s EXCEPT !.prices = pricesOf(r.data)], "ok")
              ELSE subEnd(logError(s, "Error fetching crypto prices"), "failed")
    IN  IF s.cmd = "/check" THEN getSolanaGasFee(s1) ELSE pricesReply(s1)

afterCoinGecko(s, r) ==
    IF ~r.ok
    THEN clientCatch(s, "Error fetching crypto prices", "Failed to fetch crypto prices.")
    ELSE LET s1 == subEnd([s EXCEPT !.prices = pricesOf(r.data)], "ok")
         IN  IF s.cmd = "/check" THEN getSolanaGasFee(s1) ELSE pricesReply(s1)

\* ------------------------------------------------------- /gas
gasReply(s, gasFee) == Done(reply(s, "gas", <<>>, <<gasFee>>, "floating"))

afterBlockhash(s, r) ==
    IF ~r.ok
    THEN clientCatch(s, "Error fetching gas fee", "Failed to get Solana gas fee.")
    ELSE LET s1 == subEnd(s, "ok")
             fee == toSol(r.lamportsPerSignature)
         IN  IF s.cmd = "/check" THEN checkReplyAnalysis(s1, fee)
             ELSE gasReply(s1, fee)

\* ------------------------------------------------------- /balance
balanceHandler(s) ==
    LET a == s.args
    IN  IF Len(a) < 1
        THEN Done(reply(s, "usage", <<"/balance">>, <<>>, "returned"))
        ELSE IF PublicKeyThrows(a[1])
        THEN handlerCatch(s, "Invalid public key input")
        ELSE issue(s, "rpc.getBalance", "awaitBalance")

afterBalance(s, r) ==
    IF ~r.ok
    THEN handlerCatch(s, "failed to get balance of account")
    ELSE Done(reply(s, "balance", <<>>, <<toSol(r.lamports)>>, "floating"))

\* ------------------------------------------------------- /help
\* Faulty variant: a help text that was not updated when /gas was added.
helpHandlerStale(s) ==
    reply(Done(s), "help", <<"/check", "/balance", "/prices", "/help">>,
          <<>>, "floating")

helpHandler(s) ==
    reply(Done(s), "help", <<"/check", "/balance", "/prices", "/gas", "/help">>,
          <<>>, "floating")

\* ------------------------------------------------------- dispatch
dispatch(s) ==
    CASE s.cmd = "/check" -> checkHandler(s)
      [] s.cmd = "/balance" -> balanceHandler(s)
      [] s.cmd = "/prices" -> getCryptoPrices(s)
      [] s.cmd = "/gas" -> getSolanaGasFee(s)
      [] s.cmd = "/help" -> helpHandler(s)

\* ------------------------------------------------------- the limiter
\* `limiter` is constructed (minTime, maxConcurrent) and never referenced
\* again: no request is scheduled through it, so a request starts the moment
\* its handler issues it.
Step(i, s) ==
    /\ h' = [h EXCEPT ![i] = s]
    /\ sinceLast' = IF Len(s.calls) > Len(h[i].calls) THEN 0 ELSE sinceLast
    /\ UNCHANGED alive

\* ------------------------------------------------------- actions
Receive(i, text) ==
    /\ alive
    /\ h[i].pc = "idle"
    /\ Step(i, dispatch([h[i] EXCEPT !.cmd = Head(text),
                                     !.args = kept(Head(text), argsOf(text))]))

SolscanResponds(i, r) ==
    /\ alive
    /\ h[i].pc = "awaitSolscan"
    /\ Step(i, afterSolscan(received(h[i], r), r))

TokenAccountsResponds(i, r) ==
    /\ alive
    /\ h[i].pc = "awaitTokenAccounts"
    /\ Step(i, afterTokenAccounts(received(h[i], r), r))

CoinGeckoResponds(i, r) ==
    /\ alive
    /\ h[i].pc = "awaitCoinGecko"
    /\ Step(i, afterCoinGecko(received(h[i], r), r))

BlockhashResponds(i, r) ==
    /\ alive
    /\ h[i].pc = "awaitBlockhash"
    /\ Step(i, afterBlockhash(received(h[i], r), r))

BalanceResponds(i, r) ==
    /\ alive
    /\ h[i].pc = "awaitBalance"
    /\ Step(i, afterBalance(received(h[i], r), r))

\* The Telegram send behind reply k of chat i is rejected. No handler is
\* attached to it: a floating promise becomes an unhandled rejection, a
\* returned one rejects the middleware. Whether the process survives that
\* depends on the Node and Telegraf versions in use. (A send that succeeds
\* changes nothing the program observes.)
ReplyRejects(i, k, survives) ==
    /\ alive
    /\ k \in DOMAIN h[i].replies
    /\ h[i].replies[k].status = "pending"
    /\ h' = [h EXCEPT ![i].replies[k].status = "failed",
                      ![i].uncaught = @ + 1]
    /\ alive' = survives
    /\ UNCHANGED sinceLast

Tick ==
    /\ alive
    /\ sinceLast < minTime
    /\ sinceLast' = Min(sinceLast + TickMs, minTime)
    /\ UNCHANGED <<h, alive>>

Next ==
    \/ \E i \in Chats, text \in Texts : Receive(i, text)
    \/ \E i \in Chats, r \in SolscanResponses : SolscanResponds(i, r)
    \/ \E i \in Chats, r \in TokenAccountsResponses : TokenAccountsResponds(i, r)
    \/ \E i \in Chats, r \in CoinGeckoResponses : CoinGeckoResponds(i, r)
    \/ \E i \in Chats, r \in BlockhashResponses : BlockhashResponds(i, r)
    \/ \E i \in Chats, r \in BalanceResponses : BalanceResponds(i, r)
    \/ \E i \in Chats, k \in 1..2, survives \in BOOLEAN : ReplyRejects(i, k, survives)
    \/ Tick

Spec == Init /\ [][Next]_vars

\* ================================================================ properties
Cmd(i) == h[i].cmd
IsCheck(i) == Cmd(i) = "/check" /\ Len(h[i].args) >= 2
Failed(s) == {k \in DOMAIN s.subs : s.subs[k].status = "failed"}
Order == <<"getTokenInfoFromSolscan", "getTokenBalance", "getCryptoPrices",
           "getSolanaGasFee">>
Awaiting == {"awaitSolscan", "awaitTokenAccounts", "awaitCoinGecko",
             "awaitBlockhash", "awaitBalance"}
Kinds(s) == [k \in DOMAIN s.replies |-> s.replies[k].kind]

\* C1: analyzeToken is all-or-nothing. If any of its four sub-calls failed, no
\* result was returned and exactly one "Failed to analyze token." error was
\* thrown to the caller; a result exists only when all four sub-calls
\* succeeded, and then it is {tokenInfo, balance, prices, gasFee} and no error
\* was thrown.
C1_AllOrNothing ==
    \A i \in Chats : IsCheck(i) =>
        LET s == h[i] IN
        /\ Failed(s) # {} =>
              s.analysis = Undefined /\ s.surfaced = <<"Failed to analyze token.">>
        /\ s.analysis # Undefined =>
              /\ Len(s.subs) = 4
              /\ \A k \in 1..4 : s.subs[k].status = "ok"
              /\ s.surfaced = <<>>
              /\ s.analysis[1].tokenInfo = s.rx[1].data
              /\ s.analysis[1].balance = uiAmountOrZero(s.rx[2].value).val
              /\ s.analysis[1].prices = pricesOf(s.rx[3].data)
              /\ s.analysis[1].gasFee = toSol(s.rx[4].lamportsPerSignature)
        /\ Failed(s) = {} => s.surfaced = <<>>

\* C1 witness: the third sub-call (prices) failed after two successes, and the
\* caller got the error and no result.
C1_Witness ==
    \E i \in Chats :
        /\ IsCheck(i)
        /\ Failed(h[i]) = {3}
        /\ h[i].analysis = Undefined
        /\ Len(h[i].surfaced) = 1

\* C2: every outbound call starts at least minTime after the previous one,
\* and at most maxConcurrent calls are executing at once.
C2_RateLimited ==
    [][/\ \A i \in Chats :
             Len(h'[i].calls) > Len(h[i].calls) => sinceLast >= minTime
       /\ Cardinality({i \in Chats : h'[i].pc \in Awaiting}) <= maxConcurrent]_vars

\* C3: a handler given a malformed address (the /balance argument, or either
\* argument of /check) has attempted no network call, at any time.
MalformedInput(i) ==
    \/ Cmd(i) = "/balance" /\ Len(h[i].args) >= 1
          /\ PublicKeyThrows(h[i].args[1])
    \/ IsCheck(i) /\ \E k \in 1..2 : PublicKeyThrows(h[i].args[k])

C3_InvalidAddressBeforeNetwork ==
    \A i \in Chats : MalformedInput(i) => h[i].calls = <<>>

\* C4: no handler ever ends with an uncaught error or unhandled rejection,
\* reply sends included, and the process keeps serving commands.
C4_NothingUncaught ==
    alive /\ \A i \in Chats : h[i].uncaught = 0

\* C5: analyzeToken's sub-calls are invoked in the order token info, balance,
\* prices, gas fee, each at most once; a sub-call is started only when every
\* earlier one has succeeded, so none is started after a failure.
C5_Sequential ==
    \A i \in Chats : IsCheck(i) =>
        LET s == h[i] IN
        /\ Len(s.subs) <= 4
        /\ \A k \in DOMAIN s.subs : s.subs[k].fn = Order[k]
        /\ \A k \in DOMAIN s.subs : k < Len(s.subs) => s.subs[k].status = "ok"
        /\ Failed(s) # {} => s.pc = "done"
        /\ Len(s.calls) <= Len(s.subs)

\* C5 witness: the second sub-call failed and the handler has finished with
\* exactly two sub-calls invoked.
C5_Witness ==
    \E i \in Chats :
        /\ IsCheck(i)
        /\ h[i].pc = "done"
        /\ Failed(h[i]) = {2}
        /\ Len(h[i].subs) = 2
        /\ Len(h[i].calls) = 2

\* C6: when the token-account lookup succeeds and returns no account,
\* getTokenBalance returns 0 and raises no error.
C6_NoAccountIsZero ==
    \A i \in Chats :
        (IsCheck(i) /\ Len(h[i].rx) >= 2 /\ h[i].rx[2].ok /\ h[i].rx[2].value = <<>>)
            => /\ h[i].balance = Some(0)
               /\ h[i].subs[2] = [fn |-> "getTokenBalance", status |-> "ok"]

\* C6 witness: a lookup that succeeded with an empty account list.
C6_Witness ==
    \E i \in Chats :
        /\ IsCheck(i)
        /\ Len(h[i].rx) >= 2
        /\ h[i].rx[2].ok
        /\ h[i].rx[2].value = <<>>
        /\ \A k \in 1..2 : ~PublicKeyThrows(h[i].args[k])

\* C7: /prices never shows a partial list. A failed price call yields the
\* single reply "error"; a "prices" reply is sent only after a successful
\* call and then carries a price for each of solana, bitcoin and ethereum.
C7_PricesNeverPartial ==
    \A i \in Chats : (Cmd(i) = "/prices" /\ h[i].pc = "done") =>
        /\ Failed(h[i]) # {} => Kinds(h[i]) = <<"error">>
        /\ Kinds(h[i]) = <<"prices">> =>
              /\ h[i].subs[1].status = "ok"
              /\ \A n \in 1..3 : h[i].replies[1].nums[n] # Undefined

\* C8: /help starts no request to an external service and replies once, with
\* the five supported commands, whatever the other handlers are doing.
C8_HelpIsLocal ==
    \A i \in Chats : Cmd(i) = "/help" =>
        /\ h[i].calls = <<>>
        /\ h[i].subs = <<>>
        /\ h[i].pc = "done"
        /\ Kinds(h[i]) = <<"help">>
        /\ Len(h[i].replies[1].text) = 5
        /\ {h[i].replies[1].text[n] : n \in 1..5} = Commands

\* C8 witness: /help has been answered while another handler, which has
\* already received one upstream response, is suspended on its next call.
C8_Witness ==
    \E i, j \in Chats :
        /\ Cmd(i) = "/help"
        /\ Len(h[i].replies) = 1
        /\ h[j].pc \in Awaiting
        /\ Len(h[j].rx) >= 1

\* C9: handlers are independent. The replies a handler has issued are a fixed
\* function of its own message text and of the upstream responses to its own
\* calls, and a step of one handler leaves every other handler's state as it
\* was.
Content(kind, text, nums) == [kind |-> kind, text |-> text, nums |-> nums]
Contents(s) ==
    [k \in DOMAIN s.replies |->
        Content(s.replies[k].kind, s.replies[k].text, s.replies[k].nums)]
Err(message) == <<Content("error", <<message>>, <<>>)>>

ExpectedTerminal(a, rx) ==
    IF Len(rx) = 0 THEN <<>>
    ELSE IF ~rx[1].ok THEN Err("Failed to analyze token.")
    ELSE IF PublicKeyThrows(a[1]) \/ PublicKeyThrows(a[2])
        THEN Err("Failed to analyze token.")
    ELSE IF Len(rx) = 1 THEN <<>>
    ELSE IF ~rx[2].ok \/ (rx[2].value # <<>> /\ ~rx[2].value[1].parsed)
        THEN Err("Failed to analyze token.")
    ELSE IF Len(rx) = 2 THEN <<>>
    ELSE IF ~rx[3].ok THEN Err("Failed to analyze token.")
    ELSE IF Len(rx) = 3 THEN <<>>
    ELSE IF ~rx[4].ok THEN Err("Failed to analyze token.")
    ELSE IF rx[1].data = Undefined
        THEN Err("Cannot read properties of undefined (reading 'name')")
    ELSE <<Content("analysis",
                   <<rx[1].data[1].name, rx[1].data[1].symbol>>,
                   <<priceOf(pricesOf(rx[3].data), "solana"),
                     IF rx[2].value = <<>> \/ rx[2].value[1].uiAmount = Undefined
                         THEN <<0>> ELSE rx[2].value[1].uiAmount,
                     <<rx[4].lamportsPerSignature, LAMPORTS_PER_SOL>>>>)>>

Expected(cmd, a, rx) ==
    CASE cmd = "/help" ->
            <<Content("help", <<"/check", "/balance", "/prices", "/gas", "/help">>,
                      <<>>)>>
      [] cmd = "/check" ->
            IF Len(a) < 2 THEN <<Content("usage", <<"/check">>, <<>>)>>
            ELSE <<Content("analyzing", <<>>, <<>>)>> \o ExpectedTerminal(a, rx)
      [] cmd = "/balance" ->
            IF Len(a) < 1 THEN <<Content("usage", <<"/balance">>, <<>>)>>
            ELSE IF PublicKeyThrows(a[1]) THEN Err("Invalid public key input")
            ELSE IF rx = <<>> THEN <<>>
            ELSE IF ~rx[1].ok THEN Err("failed to get balance of account")
            ELSE <<Content("balance", <<>>, <<<<rx[1].lamports, LAMPORTS_PER_SOL>>>>)>>
      [] cmd = "/prices" ->
            IF rx = <<>> THEN <<>>
            ELSE IF ~rx[1].ok THEN Err("Failed to fetch crypto prices.")
            ELSE <<Content("prices", <<>>,
                           <<priceOf(pricesOf(rx[1].data), "solana"),
                             priceOf(pricesOf(rx[1].data), "bitcoin"),
                             priceOf(pricesOf(rx[1].data), "ethereum")>>)>>
      [] cmd = "/gas" ->
            IF rx = <<>> THEN <<>>
            ELSE IF ~rx[1].ok THEN Err("Failed to get Solana gas fee.")
            ELSE <<Content("gas", <<>>,
                           <<<<rx[1].lamportsPerSignature, LAMPORTS_PER_SOL>>>>)>>

OwnContent(i) ==
    h[i].cmd # "none" => Contents(h[i]) = Expected(h[i].cmd, h[i].args, h[i].rx)

C10_CheckReplies ==
    \A i \in Chats : Cmd(i) = "/check" =>
        LET s == h[i] IN
        IF Len(s.args) < 2
        THEN Kinds(s) = <<"usage">> /\ s.calls = <<>> /\ s.subs = <<>> /\ s.pc = "done"
        ELSE /\ Len(s.replies) >= 1
             /\ s.replies[1].kind = "analyzing"
             /\ s.replies[1].at = 0
             /\ s.pc # "done" => Len(s.replies) = 1
             /\ s.pc = "done" =>
                   /\ Len(s.replies) = 2
                   /\ s.replies[2].kind \in {"analysis", "error"}

\* C10 witness: a two-argument /check that finished with the analysis reply
\* after four upstream calls.
C10_Witness ==
    \E i \in Chats :
        /\ IsCheck(i)
        /\ h[i].pc = "done"
        /\ Kinds(h[i]) = <<"analyzing", "analysis">>
        /\ Len(h[i].calls) = 4

====
